---- MODULE Spec2Model ----
(***************************************************************************)
(* Draft lifecycle of social-plugin: the drafts and post_analytics tables  *)
(* of db.py and the DraftManager operations of drafts/draft_manager.py.    *)
(*                                                                         *)
(* An optional (nullable) value is a sequence of length at most one:       *)
(* None is <<>> and a value v is <<v>>.  Timestamps are whole days of the  *)
(* store's clock.                                                          *)
(***************************************************************************)
EXTENDS Integers, Sequences, FiniteSets, TLC

\* ---- bounds ----
MaxDrafts == 2
MaxTime == 1
MaxDays == 1
MaxOps == 4

\* ---- value sets ----
DraftIds == 1..MaxDrafts
NewContents == {"old text"}
EditedContents == {"new text"}
HashtagLists == {<<>>, <<"#AI">>}
ApproveNotes == {<<>>, <<"good">>}
RejectNotes == {"", "bad"}
PostUrls == {"", "https://x.com/i/status/1"}
Errors == {"boom"}

None == <<>>

Some(v) == <<v>>

\* ---- DraftStatus ----
PENDING == "pending"

APPROVED == "approved"

REJECTED == "rejected"

POSTED == "posted"

FAILED == "failed"

EXPIRED == "expired"

DraftStatus == {PENDING, APPROVED, REJECTED, POSTED, FAILED, EXPIRED}

\* ---- Platform ----
TWITTER == "twitter"

LINKEDIN == "linkedin"

Platform == {TWITTER, LINKEDIN}

\* the store, its clock, the last call and the number of calls
VARIABLES drafts, post_analytics, now, last, ops

\* the trends and source_documents tables, the run log, and the adapter calls
\* and store writes of the last generator invocation, in order
VARIABLES trends, source_documents, run_log, trace

\* the configuration file, and the generator invocation in progress
VARIABLES config, gen

\* one adapter invocation: the provider, the outcomes of its network attempts
\* so far, and how it ended
VARIABLES provider, attempts, outcome

\* the tweets the platform has accepted, and the store sessions of
\* concurrent writers and readers
VARIABLES tweets, sessions

\* what the draft lifecycle operations leave alone
aux == <<trends, source_documents, run_log, trace, config, gen, provider, attempts, outcome,
         tweets, sessions>>

vars == <<drafts, post_analytics, now, last, ops, aux>>

\* json.dumps / json.loads of a list of strings: the stored TEXT of a list
json_dumps(list) == [json |-> list]

json_loads(text) == text.json

\* the field defaults of the Draft dataclass (id is the fresh short_uuid)
DraftDefaults ==
    [platform |-> TWITTER, content |-> "", hashtags |-> <<>>, tone |-> "",
     source_reference |-> "", status |-> PENDING, generation_model |-> None,
     generation_tokens |-> None, generation_cost |-> None]

\* Draft(...): the fields given, the defaults for the others
Draft(given) ==
    [f \in DOMAIN DraftDefaults |-> IF f \in DOMAIN given THEN given[f] ELSE DraftDefaults[f]]

\* Draft.to_db_dict: an empty hashtag list, tone or source_reference is
\* stored as NULL
to_db_dict(draft) ==
    [platform |-> draft.platform,
     content |-> draft.content,
     hashtags |-> IF draft.hashtags # <<>> THEN Some(json_dumps(draft.hashtags)) ELSE None,
     tone |-> IF draft.tone # "" THEN Some(draft.tone) ELSE None,
     source_reference |-> IF draft.source_reference # ""
                          THEN Some(draft.source_reference) ELSE None,
     status |-> draft.status,
     generation_model |-> draft.generation_model,
     generation_tokens |-> draft.generation_tokens,
     generation_cost |-> draft.generation_cost]

\* Database.insert("drafts", ...): columns not given take the schema defaults
insert_draft(data) ==
    [platform |-> data.platform,
     content |-> data.content,
     hashtags |-> data.hashtags,
     tone |-> data.tone,
     source_reference |-> data.source_reference,
     status |-> data.status,
     generation_model |-> data.generation_model,
     generation_tokens |-> data.generation_tokens,
     generation_cost |-> data.generation_cost,
     created_at |-> now,
     reviewed_at |-> None,
     posted_at |-> None,
     post_url |-> None,
     reviewer_notes |-> None,
     error_message |-> None]

\* Draft.from_db_row: the Draft value read back from a row
from_db_row(id, row) ==
    [id |-> id,
     platform |-> row.platform,
     content |-> row.content,
     hashtags |-> IF row.hashtags # None THEN json_loads(row.hashtags[1]) ELSE <<>>,
     tone |-> IF row.tone # None THEN row.tone[1] ELSE "",
     source_reference |-> IF row.source_reference # None THEN row.source_reference[1] ELSE "",
     status |-> row.status,
     generation_model |-> row.generation_model,
     generation_tokens |-> row.generation_tokens,
     generation_cost |-> row.generation_cost,
     created_at |-> row.created_at,
     reviewed_at |-> row.reviewed_at,
     posted_at |-> row.posted_at,
     post_url |-> row.post_url,
     reviewer_notes |-> row.reviewer_notes,
     error_message |-> row.error_message]

\* Database.get_draft + DraftManager.get: None for a missing id
get_draft(store, id) ==
    IF id \in DOMAIN store THEN Some(from_db_row(id, store[id])) ELSE None

\* Database.update("drafts", data, "id = ?", (id,)): the columns of data
\* overwrite those of the row with that id; no row, no change
update(store, data, id) ==
    IF id \in DOMAIN store
    THEN [store EXCEPT ![id] =
            [f \in DOMAIN @ |-> IF f \in DOMAIN data THEN data[f] ELSE @[f]]]
    ELSE store

\* Database.update_draft_status: status plus the extra columns
update_draft_status(store, id, status, extra) ==
    update(store, [f \in {"status"} \cup DOMAIN extra |->
                      IF f = "status" THEN status ELSE extra[f]], id)

\* the status of the row before an operation, None when the id is missing
StatusOf(store, id) ==
    IF id \in DOMAIN store THEN Some(store[id].status) ELSE None

Init ==
    /\ drafts = << >>
    /\ post_analytics = {}
    /\ now = 0
    /\ last = [op |-> "init", id |-> 0, ret |-> None, from |-> None, arg |-> None]
    /\ ops = 0
    /\ trends = <<>>
    /\ source_documents = <<>>
    /\ run_log = <<>>
    /\ trace = <<>>
    /\ config = [profanity_filter |-> TRUE]
    /\ gen = [pc |-> "idle"]
    /\ provider = "none"
    /\ attempts = <<>>
    /\ outcome = "idle"
    /\ tweets = <<>>
    /\ sessions = <<>>

\* one more call of the draft store's interface, at most MaxOps in a run
Count == ops < MaxOps /\ ops' = ops + 1

\* the clock of the store advances by a day
Tick ==
    /\ now < MaxTime
    /\ now' = now + 1
    /\ UNCHANGED <<drafts, post_analytics, last, ops, aux>>

\* DraftManager.create of a freshly constructed Draft (status PENDING); its id
\* is fresh, and of the unused ids the model takes the first
create(id, content, hashtags) ==
    /\ Count
    /\ id \notin DOMAIN drafts
    /\ \A j \in DraftIds \ DOMAIN drafts : id <= j
    /\ drafts' = [i \in DOMAIN drafts \cup {id} |->
                    IF i = id
                    THEN insert_draft(to_db_dict(Draft([content |-> content, hashtags |-> hashtags])))
                    ELSE drafts[i]]
    /\ last' = [op |-> "create", id |-> id, ret |-> None, from |-> None,
                arg |-> <<content, hashtags>>]
    /\ UNCHANGED <<post_analytics, now, aux>>

\* DraftManager.get
get(id) ==
    /\ Count
    /\ last' = [op |-> "get", id |-> id, ret |-> get_draft(drafts, id),
                from |-> StatusOf(drafts, id), arg |-> None]
    /\ UNCHANGED <<drafts, post_analytics, now, aux>>

ApproveSources_any_unposted == DraftStatus \ {POSTED}

\* the source states approve accepts
ApproveSources == {PENDING, FAILED}

approve_stamps_first(id, notes) ==
    /\ Count
    /\ LET draft == get_draft(drafts, id)
           ok == draft # None /\ draft[1].status \in ApproveSources
       IN /\ drafts' = IF ok
                       THEN update_draft_status(drafts, id, APPROVED, [reviewed_at |-> Some(now)])
                       ELSE update(drafts, [reviewed_at |-> Some(now)], id)
          /\ last' = [op |-> "approve", id |-> id, ret |-> ok,
                      from |-> StatusOf(drafts, id), arg |-> notes]
          /\ UNCHANGED <<post_analytics, now, aux>>

\* DraftManager.approve
approve(id, notes) ==
    /\ Count
    /\ LET draft == get_draft(drafts, id)
           ok == draft # None /\ draft[1].status \in ApproveSources
           kwargs == IF notes # None /\ notes[1] # ""
                     THEN [reviewed_at |-> Some(now), reviewer_notes |-> notes]
                     ELSE [reviewed_at |-> Some(now)]
       IN /\ drafts' = IF ok THEN update_draft_status(drafts, id, APPROVED, kwargs)
                       ELSE drafts
          /\ last' = [op |-> "approve", id |-> id, ret |-> ok,
                      from |-> StatusOf(drafts, id), arg |-> notes]
          /\ UNCHANGED <<post_analytics, now, aux>>

RejectSources_with_failed == {PENDING, FAILED}

\* the source states reject accepts
RejectSources == {PENDING}

\* DraftManager.reject
reject(id, notes) ==
    /\ Count
    /\ LET draft == get_draft(drafts, id)
           ok == draft # None /\ draft[1].status \in RejectSources
       IN /\ drafts' = IF ok
                       THEN update_draft_status(drafts, id, REJECTED,
                               [reviewed_at |-> Some(now),
                                reviewer_notes |-> IF notes # "" THEN Some(notes) ELSE None])
                       ELSE drafts
          /\ last' = [op |-> "reject", id |-> id, ret |-> ok,
                      from |-> StatusOf(drafts, id), arg |-> notes]
          /\ UNCHANGED <<post_analytics, now, aux>>

PostSources_with_pending == {APPROVED, PENDING}

\* the source states mark_posted accepts
PostSources == {APPROVED}

\* DraftManager.mark_posted
mark_posted(id, post_url) ==
    /\ Count
    /\ LET draft == get_draft(drafts, id)
           ok == draft # None /\ draft[1].status \in PostSources
       IN /\ drafts' = IF ok
                       THEN update_draft_status(drafts, id, POSTED,
                               [posted_at |-> Some(now),
                                post_url |-> IF post_url # "" THEN Some(post_url) ELSE None])
                       ELSE drafts
          /\ last' = [op |-> "mark_posted", id |-> id, ret |-> ok,
                      from |-> StatusOf(drafts, id), arg |-> post_url]
          /\ UNCHANGED <<post_analytics, now, aux>>

mark_failed_drops_error(id, error) ==
    /\ Count
    /\ drafts' = update(drafts, [status |-> FAILED], id)
    /\ last' = [op |-> "mark_failed", id |-> id, ret |-> TRUE,
                from |-> StatusOf(drafts, id), arg |-> error]
    /\ UNCHANGED <<post_analytics, now, aux>>

\* DraftManager.mark_failed: no lookup, no guard, always returns True
mark_failed(id, error) ==
    /\ Count
    /\ drafts' = update_draft_status(drafts, id, FAILED, [error_message |-> Some(error)])
    /\ last' = [op |-> "mark_failed", id |-> id, ret |-> TRUE,
                from |-> StatusOf(drafts, id), arg |-> error]
    /\ UNCHANGED <<post_analytics, now, aux>>

update_content_data_keeps_status(content, hashtags) ==
    IF hashtags # None
    THEN [content |-> content, hashtags |-> Some(json_dumps(hashtags[1]))]
    ELSE [content |-> content]

\* update_content storing NULL for the hashtags
update_content_data_clears_hashtags(content, hashtags) ==
    [content |-> content, status |-> PENDING, hashtags |-> None]

\* the columns update_content writes
update_content_data(content, hashtags) ==
    IF hashtags # None
    THEN [content |-> content, status |-> PENDING,
          hashtags |-> Some(json_dumps(hashtags[1]))]
    ELSE [content |-> content, status |-> PENDING]

\* DraftManager.update_content: no lookup, no guard, always returns True
update_content(id, content, hashtags) ==
    /\ Count
    /\ drafts' = update(drafts, update_content_data(content, hashtags), id)
    /\ last' = [op |-> "update_content", id |-> id, ret |-> TRUE,
                from |-> StatusOf(drafts, id), arg |-> <<content, hashtags>>]
    /\ UNCHANGED <<post_analytics, now, aux>>

\* Database.delete_draft: the analytics row first, then the draft row
delete_draft(store, id) == [i \in DOMAIN store \ {id} |-> store[i]]

delete_keeps_analytics(id) ==
    /\ Count
    /\ drafts' = delete_draft(drafts, id)
    /\ last' = [op |-> "delete", id |-> id, ret |-> (id \in DOMAIN drafts),
                from |-> StatusOf(drafts, id),
                arg |-> IF id \in DOMAIN drafts THEN Some(id \in post_analytics) ELSE None]
    /\ UNCHANGED <<post_analytics, now, aux>>

\* DraftManager.delete
delete(id) ==
    /\ Count
    /\ LET draft == get_draft(drafts, id)
       IN /\ IF draft = None
             THEN /\ UNCHANGED <<drafts, post_analytics>>
                  /\ last' = [op |-> "delete", id |-> id, ret |-> FALSE,
                              from |-> None, arg |-> None]
             ELSE /\ post_analytics' = post_analytics \ {id}
                  /\ drafts' = delete_draft(drafts, id)
                  /\ last' = [op |-> "delete", id |-> id,
                              ret |-> (id \in DOMAIN drafts),
                              from |-> StatusOf(drafts, id),
                              arg |-> Some(id \in post_analytics)]
          /\ UNCHANGED <<now, aux>>

expires_at_threshold(row, days) == row.status = PENDING /\ row.created_at <= now - days

\* the WHERE clause of Database.expire_old_drafts
expires(row, days) == row.status = PENDING /\ row.created_at < now - days

\* Database.expire_old_drafts + DraftManager.expire_old
expire_old(days) ==
    /\ Count
    /\ drafts' = [i \in DOMAIN drafts |->
                    IF expires(drafts[i], days)
                    THEN [drafts[i] EXCEPT !.status = EXPIRED]
                    ELSE drafts[i]]
    /\ last' = [op |-> "expire_old", id |-> 0,
                ret |-> Cardinality({i \in DOMAIN drafts : expires(drafts[i], days)}),
                from |-> None, arg |-> days]
    /\ UNCHANGED <<post_analytics, now, aux>>

\* Database.insert_analytics: post_analytics.draft_id REFERENCES drafts(id)
\* with foreign_keys=ON and is UNIQUE, so any other insert raises
insert_analytics(id) ==
    /\ Count
    /\ id \in DOMAIN drafts
    /\ id \notin post_analytics
    /\ post_analytics' = post_analytics \cup {id}
    /\ last' = [op |-> "insert_analytics", id |-> id, ret |-> None,
                from |-> StatusOf(drafts, id), arg |-> None]
    /\ UNCHANGED <<drafts, now, aux>>

Next ==
    \/ Tick
    \/ \E id \in DraftIds, c \in NewContents, h \in HashtagLists : create(id, c, h)
    \/ \E id \in DraftIds : get(id)
    \/ \E id \in DraftIds, n \in ApproveNotes : approve(id, n)
    \/ \E id \in DraftIds, n \in RejectNotes : reject(id, n)
    \/ \E id \in DraftIds, u \in PostUrls : mark_posted(id, u)
    \/ \E id \in DraftIds, e \in Errors : mark_failed(id, e)
    \/ \E id \in DraftIds, c \in EditedContents, h \in {None} \cup {Some(x) : x \in HashtagLists} :
          update_content(id, c, h)
    \/ \E id \in DraftIds : delete(id)
    \/ \E d \in 0..MaxDays : expire_old(d)
    \/ \E id \in DraftIds : insert_analytics(id)

Spec == Init /\ [][Next]_vars

\* ---- the content generator (generator/content_generator.py) ----

\* A text is a sequence of tokens: "a" is an ordinary character, "x" a word of
\* the profanity lexicon, " " whitespace.  Its length is its number of tokens.
ProfaneWords == {"x"}

Whitespace == {" "}

\* str.strip(): the text without its leading and trailing whitespace
RECURSIVE lstrip(_)
lstrip(text) ==
    IF text # <<>> /\ Head(text) \in Whitespace THEN lstrip(Tail(text)) ELSE text

RECURSIVE rstrip(_)
rstrip(text) ==
    IF text # <<>> /\ text[Len(text)] \in Whitespace
    THEN rstrip(SubSeq(text, 1, Len(text) - 1)) ELSE text

strip(text) == rstrip(lstrip(text))

\* ContentSafety.check(content).is_safe: no scan reports an issue
is_safe(text) == \A i \in 1..Len(text) : text[i] \notin ProfaneWords

\* generation.tweet.max_length (280 by default), in tokens
max_length == 2

\* the configured model, which the adapter copies into its results
ConfiguredModel == "claude-sonnet-4-5-20250929"

\* _estimate_cost, in millionths of a dollar, at the configured model's prices
InputPrice == 3

OutputPrice == 15

estimate_cost(input_tokens, output_tokens) ==
    input_tokens * InputPrice + output_tokens * OutputPrice

\* GenerationResult of an adapter call that answered with text
GenerationResult(text) ==
    [text |-> text,
     model |-> ConfiguredModel,
     input_tokens |-> 1,
     output_tokens |-> Len(text),
     total_tokens |-> 1 + Len(text),
     estimated_cost |-> estimate_cost(1, Len(text))]

\* the texts the adapter may answer with: one that fits once stripped, an
\* unsafe one, and one over the ceiling
AdapterTexts == {<<"a", "a", " ">>, <<"x">>, <<" ", "a", "a", "a">>}

\* the adapter's generate either returns a result or raises
ProviderError == [error |-> "APIError"]

Responses == {GenerationResult(t) : t \in AdapterTexts} \cup {ProviderError}

Raises(r) == "error" \in DOMAIN r

\* the instructions appended to the system prompt on a corrective call
StrictInstruction == "IMPORTANT: Avoid any profanity, vulgarity, or inappropriate language."

HardLimitInstruction == "CRITICAL: Your response MUST be under max_length characters including hashtags."

\* generation.default_tone of generate_tweet / generate_linkedin_post
default_tone(platform) ==
    IF platform = TWITTER THEN "informative, thought-provoking, professional"
    ELSE "thought-leadership, conversational"

\* topics.hashtags.<platform>, with the code's defaults
config_hashtags(platform) ==
    IF platform = TWITTER THEN <<"#PhysicalAI", "#Robotics">>
    ELSE <<"#PhysicalAI", "#Robotics", "#AI">>

\* build_tweet_system_prompt / build_linkedin_system_prompt: the parts of the prompt
system_prompt(platform, tone) == <<platform, tone>>

\* Database.get_trends(today): the rows of today, at most TrendLimit of them
TrendLimit == 20

get_recent_trends ==
    LET today == {i \in 1..Len(trends) : trends[i] = now}
    IN IF Cardinality(today) > TrendLimit THEN TrendLimit ELSE Cardinality(today)

\* cache_ttl_hours (24 by default), in days of the clock
cache_ttl == 1

\* Database.get_recent_source_documents(hours): fetched_at > now - hours
get_recent_source_documents(hours) ==
    {i \in 1..Len(source_documents) : source_documents[i].fetched_at > now - hours}

\* ContentGenerator._get_recent_sources: the rows of the last cache_ttl
get_recent_sources == Cardinality(get_recent_source_documents(cache_ttl))

\* the two counts in the other order
source_reference_swapped(n_trends, n_sources) ==
    "trends:" \o ToString(n_sources) \o ",sources:" \o ToString(n_trends)

\* f"trends:{len(trends)},sources:{len(sources)}"
source_reference(n_trends, n_sources) ==
    "trends:" \o ToString(n_trends) \o ",sources:" \o ToString(n_sources)

\* the unused ids; a new Draft takes the first one not taken yet
FreeIds(taken) == DraftIds \ (DOMAIN drafts \cup taken)

FreshId(taken) == CHOOSE i \in FreeIds(taken) : \A j \in FreeIds(taken) : i <= j

Idle == gen.pc = "idle"

\* ---- inputs and bounds of the generator ----
\* the generate entry points take half of the call budget: each call is
\* several adapter steps long
MaxGenOps == MaxOps \div 2
GenerateTones == {None}
RegenTones == {"witty"}

\* the ids of the Draft values an invocation has constructed so far
IdsOf(returned) == {returned[i].id : i \in 1..Len(returned)}

\* Database.get_recent_drafts(days, platform): the contents of the drafts of
\* the platform created in the last `days` days
get_recent_drafts(days, platform) ==
    {id \in DOMAIN drafts :
        /\ drafts[id].created_at > now - days
        /\ drafts[id].platform = platform}

\* Database.get_recent_rejection_notes(days, platform): the notes of the
\* drafts of the platform that are rejected, carry non-empty notes and were
\* reviewed in the last `days` days (LIMIT 10 is above MaxDrafts)
get_recent_rejection_notes(days, platform) ==
    {drafts[id].reviewer_notes[1] : id \in
        {i \in DOMAIN drafts :
            /\ drafts[i].status = REJECTED
            /\ drafts[i].reviewer_notes # None
            /\ drafts[i].reviewer_notes[1] # ""
            /\ drafts[i].reviewed_at # None
            /\ drafts[i].reviewed_at[1] > now - days
            /\ drafts[i].platform = platform}}

\* Database.get_recent_approval_notes(days, platform): as above for the
\* drafts whose status is approved or posted
get_recent_approval_notes(days, platform) ==
    {drafts[id].reviewer_notes[1] : id \in
        {i \in DOMAIN drafts :
            /\ drafts[i].status \in {APPROVED, POSTED}
            /\ drafts[i].reviewer_notes # None
            /\ drafts[i].reviewer_notes[1] # ""
            /\ drafts[i].reviewed_at # None
            /\ drafts[i].reviewed_at[1] > now - days
            /\ drafts[i].platform = platform}}

\* the headings build_user_prompt puts above the feedback it is given
AVOID == "Previous feedback - things to AVOID:"
WORKED_WELL == "Previous feedback - things that worked WELL:"

\* prompts.build_user_prompt: the sections of the user prompt; a feedback
\* section is empty unless feedback was passed in, and otherwise is its
\* heading and the notes
build_user_prompt(platform, n_trends, n_sources, previous, rejection_feedback, approval_feedback) ==
    [platform |-> platform,
     trends |-> n_trends,
     sources |-> n_sources,
     previous_drafts |-> previous,
     rejection_section |-> IF rejection_feedback # {}
                           THEN {AVOID} \cup rejection_feedback ELSE {},
     approval_section |-> IF approval_feedback # {}
                          THEN {WORKED_WELL} \cup approval_feedback ELSE {}]

\* prompts.build_regen_prompt: the original content, the tone and the platform
build_regen_prompt(original_content, new_tone, platform) ==
    [platform |-> platform,
     trends |-> 0,
     sources |-> 0,
     previous_drafts |-> {original_content},
     rejection_section |-> {},
     approval_section |-> {}]

\* the user prompt generate_tweet / generate_linkedin_post build: trends,
\* sources and the recent drafts of the platform; rejection_feedback and
\* approval_feedback are left at their defaults (None)
user_prompt_of(platform) ==
    build_user_prompt(platform, get_recent_trends, get_recent_sources,
                      {drafts[id].content : id \in get_recent_drafts(10, platform)},
                      {}, {})

\* generate_tweet / generate_linkedin_post up to the first adapter call: the
\* prompts are built and the context gathered
begin_stage(cmd, platform, tone, dry_run, returned) ==
    [pc |-> "first",
     cmd |-> cmd,
     platform |-> platform,
     tone |-> IF tone # None THEN tone[1] ELSE default_tone(platform),
     dry_run |-> dry_run,
     n_trends |-> get_recent_trends,
     n_sources |-> get_recent_sources,
     id |-> FreshId(IdsOf(returned)),
     hashtags |-> config_hashtags(platform),
     user_prompt |-> user_prompt_of(platform),
     returned |-> returned]

\* Database.start_run / Database.complete_run on the run log
start_run(log, run_type) == Append(log, [run_type |-> run_type, status |-> None])

complete_run(log, status) == [log EXCEPT ![Len(log)].status = Some(status)]

\* ContentGenerator.generate_tweet is called
generate_tweet(tone, dry_run) ==
    /\ Idle
    /\ ops < MaxGenOps
    /\ Count
    /\ FreeIds({}) # {}
    /\ gen' = begin_stage("generate_tweet", TWITTER, tone, dry_run, <<>>)
    /\ trace' = <<>>
    /\ UNCHANGED <<drafts, post_analytics, now, last, trends, source_documents,
                   run_log, config, provider, attempts, outcome, tweets, sessions>>

\* ContentGenerator.generate_linkedin_post is called
generate_linkedin_post(tone, dry_run) ==
    /\ Idle
    /\ ops < MaxGenOps
    /\ Count
    /\ FreeIds({}) # {}
    /\ gen' = begin_stage("generate_linkedin_post", LINKEDIN, tone, dry_run, <<>>)
    /\ trace' = <<>>
    /\ UNCHANGED <<drafts, post_analytics, now, last, trends, source_documents,
                   run_log, config, provider, attempts, outcome, tweets, sessions>>

\* the generate command (cli.py): start_run, then generate_all, which with the
\* default counts is generate_tweet followed by generate_linkedin_post
generate(tone, dry_run) ==
    /\ Idle
    /\ ops < MaxGenOps
    /\ Count
    /\ Cardinality(FreeIds({})) >= 2
    /\ run_log' = start_run(run_log, "generate")
    /\ gen' = begin_stage("generate", TWITTER, tone, dry_run, <<>>)
    /\ trace' = <<>>
    /\ UNCHANGED <<drafts, post_analytics, now, last, trends, source_documents,
                   config, provider, attempts, outcome, tweets, sessions>>

\* ContentGenerator.regenerate is called: a missing draft returns None at once
regenerate(id, new_tone) ==
    /\ Idle
    /\ Count
    /\ LET draft == get_draft(drafts, id)
       IN IF draft = None
          THEN /\ last' = [op |-> "regenerate", id |-> id,
                           ret |-> [raised |-> FALSE, value |-> <<>>],
                           from |-> None, arg |-> new_tone]
               /\ UNCHANGED gen
          ELSE /\ gen' = [pc |-> "first",
                          cmd |-> "regenerate",
                          platform |-> draft[1].platform,
                          tone |-> new_tone,
                          dry_run |-> FALSE,
                          n_trends |-> 0,
                          n_sources |-> 0,
                          id |-> id,
                          hashtags |-> draft[1].hashtags,
                          user_prompt |-> build_regen_prompt(draft[1].content,
                                                             new_tone, draft[1].platform),
                          returned |-> <<>>]
               /\ UNCHANGED last
    /\ trace' = <<>>
    /\ UNCHANGED <<drafts, post_analytics, now, trends, source_documents,
                   run_log, config, provider, attempts, outcome, tweets, sessions>>

\* the system prompt of the adapter call the invocation is waiting for
system_of(g) ==
    LET base == system_prompt(g.platform, g.tone)
    IN IF g.pc = "safety" THEN Append(base, StrictInstruction)
       ELSE IF g.pc = "length" THEN Append(base, HardLimitInstruction)
       ELSE base

\* the corrective call whatever the profanity_filter setting
needs_safety_retry_unfiltered(g, r) ==
    g.pc = "first" /\ g.cmd # "regenerate" /\ ~is_safe(r.text)

\* the safety check of the first result asks for the corrective call
needs_safety_retry(g, r) ==
    g.pc = "first" /\ g.cmd # "regenerate" /\ ~is_safe(r.text) /\ config.profanity_filter

\* the length check of generate_tweet asks for the hard-limit call
needs_length_retry(g, r) ==
    /\ g.pc \in {"first", "safety"}
    /\ g.cmd # "regenerate"
    /\ g.platform = TWITTER
    /\ Len(strip(r.text)) > max_length

\* dry-run mode as if it were off
skips_persistence_never(g) == FALSE

\* `if dry_run:` returns the unsaved Draft before anything is persisted
skips_persistence(g) == g.dry_run

\* the Draft a pipeline constructs from its final result
draft_of(g, r) ==
    [id |-> g.id] @@
    (IF skips_persistence(g)
     THEN Draft([platform |-> g.platform, content |-> strip(r.text),
                 hashtags |-> g.hashtags, tone |-> g.tone])
     ELSE Draft([platform |-> g.platform, content |-> strip(r.text),
                 hashtags |-> g.hashtags, tone |-> g.tone,
                 source_reference |-> source_reference(g.n_trends, g.n_sources),
                 generation_model |-> Some(r.model),
                 generation_tokens |-> Some(r.total_tokens),
                 generation_cost |-> Some(r.estimated_cost)]))

\* the record of a finished invocation
finished(g, raised, value) ==
    [op |-> g.cmd, id |-> g.id, ret |-> [raised |-> raised, value |-> value],
     from |-> None, arg |-> [tone |-> g.tone, dry_run |-> g.dry_run]]

\* the generate command recording a run that raised as a success
adapter_raises_unrecorded(r) ==
    /\ ~Idle
    /\ Raises(r)
    /\ trace' = Append(trace, [kind |-> "llm", system |-> system_of(gen), response |-> r])
    /\ gen' = [pc |-> "idle"]
    /\ last' = finished(gen, TRUE, gen.returned)
    /\ run_log' = IF gen.cmd = "generate" THEN complete_run(run_log, "success") ELSE run_log
    /\ UNCHANGED <<drafts, post_analytics, now, ops, trends, source_documents,
                   config, provider, attempts, outcome, tweets, sessions>>

\* the adapter raises: the error leaves the generator; the generate command
\* catches it and completes its run as failed
adapter_raises(r) ==
    /\ ~Idle
    /\ Raises(r)
    /\ trace' = Append(trace, [kind |-> "llm", system |-> system_of(gen), response |-> r])
    /\ gen' = [pc |-> "idle"]
    /\ last' = finished(gen, TRUE, gen.returned)
    /\ run_log' = IF gen.cmd = "generate" THEN complete_run(run_log, "failed") ELSE run_log
    /\ UNCHANGED <<drafts, post_analytics, now, ops, trends, source_documents,
                   config, provider, attempts, outcome, tweets, sessions>>

\* the adapter returns a result that makes the pipeline call it again
adapter_returns_retry(r) ==
    /\ ~Idle
    /\ ~Raises(r)
    /\ needs_safety_retry(gen, r) \/ needs_length_retry(gen, r)
    /\ trace' = Append(trace, [kind |-> "llm", system |-> system_of(gen), response |-> r])
    /\ gen' = [gen EXCEPT !.pc = IF needs_safety_retry(gen, r) THEN "safety" ELSE "length"]
    /\ UNCHANGED <<drafts, post_analytics, now, last, ops, trends, source_documents,
                   run_log, config, provider, attempts, outcome, tweets, sessions>>

\* the adapter returns the final result of generate_tweet or
\* generate_linkedin_post: the Draft is built and, unless dry_run, created;
\* generate_all then goes on to the LinkedIn post or returns
adapter_returns_final(r) ==
    /\ ~Idle
    /\ ~Raises(r)
    /\ gen.cmd # "regenerate"
    /\ ~needs_safety_retry(gen, r)
    /\ ~needs_length_retry(gen, r)
    /\ LET draft == draft_of(gen, r)
           returned == Append(gen.returned, draft)
           more == gen.cmd = "generate" /\ gen.platform = TWITTER
           llm == [kind |-> "llm", system |-> system_of(gen), response |-> r]
       IN /\ drafts' = IF skips_persistence(gen) THEN drafts
                       ELSE [i \in DOMAIN drafts \cup {draft.id} |->
                               IF i = draft.id THEN insert_draft(to_db_dict(draft))
                               ELSE drafts[i]]
          /\ trace' = IF skips_persistence(gen) THEN Append(trace, llm)
                      ELSE trace \o <<llm, [kind |-> "insert", id |-> draft.id]>>
          /\ gen' = IF more
                    THEN begin_stage("generate", LINKEDIN,
                                     IF gen.tone = default_tone(TWITTER) THEN None
                                     ELSE Some(gen.tone),
                                     gen.dry_run, returned)
                    ELSE [pc |-> "idle"]
          /\ last' = IF more THEN last ELSE finished(gen, FALSE, returned)
          /\ run_log' = IF gen.cmd = "generate" /\ ~more
                        THEN complete_run(run_log, "success") ELSE run_log
    /\ UNCHANGED <<post_analytics, now, ops, trends, source_documents,
                   config, provider, attempts, outcome, tweets, sessions>>

\* regenerate as a fresh insert: the row is stamped again
adapter_returns_regen_restamps(r) ==
    /\ ~Idle
    /\ ~Raises(r)
    /\ gen.cmd = "regenerate"
    /\ drafts' = update(drafts, update_content_data(strip(r.text), Some(gen.hashtags))
                                @@ [created_at |-> now], gen.id)
    /\ trace' = trace \o <<[kind |-> "llm", system |-> system_of(gen), response |-> r],
                           [kind |-> "update", id |-> gen.id]>>
    /\ gen' = [pc |-> "idle"]
    /\ last' = finished(gen, FALSE, get_draft(drafts', gen.id))
    /\ UNCHANGED <<post_analytics, now, ops, trends, source_documents,
                   run_log, config, provider, attempts, outcome, tweets, sessions>>

\* the adapter returns the result of regenerate: no retry, update_content with
\* the draft's own hashtags, and the draft is read back
adapter_returns_regen(r) ==
    /\ ~Idle
    /\ ~Raises(r)
    /\ gen.cmd = "regenerate"
    /\ drafts' = update(drafts, update_content_data(strip(r.text), Some(gen.hashtags)), gen.id)
    /\ trace' = trace \o <<[kind |-> "llm", system |-> system_of(gen), response |-> r],
                           [kind |-> "update", id |-> gen.id]>>
    /\ gen' = [pc |-> "idle"]
    /\ last' = finished(gen, FALSE, get_draft(drafts', gen.id))
    /\ UNCHANGED <<post_analytics, now, ops, trends, source_documents,
                   run_log, config, provider, attempts, outcome, tweets, sessions>>

\* SourceDocument.compute_hash: the digest of the content
content_hash(content) == [sha256 |-> content]

\* a row of source_documents: fetched_at defaults to CURRENT_TIMESTAMP
source_document_row(source_path, hash) ==
    [source_path |-> source_path, content_hash |-> hash, fetched_at |-> now]

\* Database.insert_trend / insert_source_document: a row dated now
MaxTrends == 1
MaxSources == 1

insert_trend ==
    /\ Idle
    /\ Len(trends) < MaxTrends
    /\ trends' = Append(trends, now)
    /\ UNCHANGED <<drafts, post_analytics, now, last, ops, source_documents, run_log,
                   trace, config, gen, provider, attempts, outcome, tweets, sessions>>

insert_source_document ==
    /\ Idle
    /\ Len(source_documents) < MaxSources
    /\ source_documents' = Append(source_documents,
                                  source_document_row("doc.md", content_hash(<<"a">>)))
    /\ UNCHANGED <<drafts, post_analytics, now, last, ops, trends, run_log,
                   trace, config, gen, provider, attempts, outcome, tweets, sessions>>

\* the configuration the generator is constructed with
InitGen ==
    /\ drafts = << >>
    /\ post_analytics = {}
    /\ now = 0
    /\ last = [op |-> "init", id |-> 0, ret |-> None, from |-> None, arg |-> None]
    /\ ops = 0
    /\ trends = <<>>
    /\ source_documents = <<>>
    /\ run_log = <<>>
    /\ trace = <<>>
    /\ config \in {[profanity_filter |-> b] : b \in BOOLEAN}
    /\ gen = [pc |-> "idle"]
    /\ provider = "none"
    /\ attempts = <<>>
    /\ outcome = "idle"
    /\ tweets = <<>>
    /\ sessions = <<>>

\* the generator at work: context rows arrive, the clock advances, and the
\* generate entry points are called
NextGen ==
    \/ \E t \in GenerateTones, d \in BOOLEAN : generate_tweet(t, d)
    \/ \E t \in GenerateTones, d \in BOOLEAN : generate_linkedin_post(t, d)
    \/ \E r \in Responses : adapter_raises(r)
    \/ \E r \in Responses : adapter_returns_retry(r)
    \/ \E r \in Responses : adapter_returns_final(r)
    \/ insert_trend
    \/ insert_source_document
    \/ Idle /\ Tick

SpecGen == InitGen /\ [][NextGen]_vars

\* the generate command and the generate entry points at work, on one day
NextCmd ==
    \/ \E t \in GenerateTones, d \in BOOLEAN : generate(t, d)
    \/ \E t \in GenerateTones, d \in BOOLEAN : generate_tweet(t, d)
    \/ \E t \in GenerateTones, d \in BOOLEAN : generate_linkedin_post(t, d)
    \/ \E id \in DraftIds, t \in RegenTones : ops < MaxGenOps /\ regenerate(id, t)
    \/ \E r \in Responses : adapter_raises(r)
    \/ \E r \in Responses : adapter_returns_retry(r)
    \/ \E r \in Responses : adapter_returns_final(r)
    \/ \E r \in Responses : adapter_returns_regen(r)
    \/ insert_trend
    \/ insert_source_document

SpecCmd == InitGen /\ [][NextCmd]_vars

\* DraftManager.create of the Draft a generate call builds for a platform
\* (content_generator.py builds it with tone, source_reference and provenance)
create_generated(id, platform) ==
    /\ Count
    /\ id \notin DOMAIN drafts
    /\ \A j \in DraftIds \ DOMAIN drafts : id <= j
    /\ LET r == GenerationResult(<<"a">>)
           draft == Draft([platform |-> platform, content |-> strip(r.text),
                           hashtags |-> config_hashtags(platform),
                           tone |-> default_tone(platform),
                           source_reference |-> source_reference(0, 0),
                           generation_model |-> Some(r.model),
                           generation_tokens |-> Some(r.total_tokens),
                           generation_cost |-> Some(r.estimated_cost)])
       IN drafts' = [i \in DOMAIN drafts \cup {id} |->
                       IF i = id THEN insert_draft(to_db_dict(draft)) ELSE drafts[i]]
    /\ last' = [op |-> "create", id |-> id, ret |-> None, from |-> None, arg |-> platform]
    /\ UNCHANGED <<post_analytics, now, aux>>

\* texts of manual edits
EditedTexts == {<<"a", "a">>}

\* review and regeneration of generated drafts
NextRegen ==
    \/ \E id \in DraftIds, p \in Platform : Idle /\ create_generated(id, p)
    \/ \E id \in DraftIds, t \in RegenTones : regenerate(id, t)
    \/ \E r \in Responses : adapter_raises(r)
    \/ \E r \in Responses : adapter_returns_regen(r)
    \/ Idle /\ Tick
    \/ \E id \in DraftIds : Idle /\ approve(id, None)
    \/ \E id \in DraftIds : Idle /\ reject(id, "bad")
    \/ \E id \in DraftIds : Idle /\ mark_posted(id, "")
    \/ \E id \in DraftIds, e \in Errors : Idle /\ mark_failed(id, e)
    \/ \E id \in DraftIds, c \in EditedTexts : Idle /\ update_content(id, c, None)
    \/ \E id \in DraftIds : Idle /\ delete(id)
    \/ \E d \in 0..MaxDays : Idle /\ expire_old(d)

SpecRegen == Init /\ [][NextRegen]_vars

\* ---- reviewer feedback and the next generation ----

\* a store holding one generated draft that awaits review
InitFeedback ==
    /\ now = 0
    /\ \E p \in Platform :
         drafts = <<insert_draft(to_db_dict(Draft(
                       [platform |-> p, content |-> <<"a">>,
                        hashtags |-> config_hashtags(p),
                        tone |-> default_tone(p),
                        source_reference |-> source_reference(0, 0),
                        generation_model |-> None,
                        generation_tokens |-> None,
                        generation_cost |-> None])))>>
    /\ post_analytics = {}
    /\ last = [op |-> "init", id |-> 0, ret |-> None, from |-> None, arg |-> None]
    /\ ops = 0
    /\ trends = <<>>
    /\ source_documents = <<>>
    /\ run_log = <<>>
    /\ trace = <<>>
    /\ config \in {[profanity_filter |-> b] : b \in BOOLEAN}
    /\ gen = [pc |-> "idle"]
    /\ provider = "none"
    /\ attempts = <<>>
    /\ outcome = "idle"
    /\ tweets = <<>>
    /\ sessions = <<>>

\* reviews of the stored drafts, and generations that follow them
NextFeedback ==
    \/ \E id \in DraftIds, n \in ApproveNotes : Idle /\ approve(id, n)
    \/ \E id \in DraftIds : Idle /\ reject(id, "bad")
    \/ \E id \in DraftIds, c \in EditedTexts : Idle /\ update_content(id, c, None)
    \/ \E d \in BOOLEAN : generate_tweet(None, d)
    \/ \E r \in Responses : adapter_raises(r)
    \/ \E r \in Responses : adapter_returns_retry(r)
    \/ \E r \in Responses : adapter_returns_final(r)
    \/ Idle /\ Tick

SpecFeedback == InitFeedback /\ [][NextFeedback]_vars

\* ---- the adapters' retry policy (utils/retry.py, generator/llm_client.py) ----

Providers == {"anthropic", "openai", "google"}

\* what one network attempt can end with: a response, or an exception of one
\* of these classes (connection failure, 5xx status, 4xx status, and an
\* exception that is not an API error)
OK == "ok"

ErrorClasses == {"APIConnectionError", "InternalServerError", "BadRequestError", "ValueError"}

\* the classes an exception is an instance of
Bases(error) ==
    IF error = "ValueError" THEN {"ValueError", "Exception"}
    ELSE {error, "APIError", "Exception"}

\* the retry_on tuple of the provider's generate
retry_on(p) ==
    IF p = "google" THEN {"Exception"} ELSE {"APIError", "APIConnectionError"}

\* retry_if_exception_type(retry_on)
retry_if_exception_type(p, error) == Bases(error) \cap retry_on(p) # {}

max_attempts == 3

\* stop_after_attempt(max_attempts), after the attempt that makes n
stop_after_attempt(n) == n >= max_attempts

\* reraise=True: what leaves generate when the attempts are used up
reraise(error) == error

\* generate is called: no attempt made yet
call_generate ==
    /\ outcome # "running"
    /\ attempts' = <<>>
    /\ outcome' = "running"
    /\ UNCHANGED <<drafts, post_analytics, now, last, ops, trends, source_documents,
                   run_log, trace, config, gen, provider, tweets, sessions>>

\* an attempt gets its response: generate returns the result
attempt_succeeds ==
    /\ outcome = "running"
    /\ attempts' = Append(attempts, OK)
    /\ outcome' = "returned"
    /\ UNCHANGED <<drafts, post_analytics, now, last, ops, trends, source_documents,
                   run_log, trace, config, gen, provider, tweets, sessions>>

\* an attempt raises: tenacity retries, re-raises the error when the
\* attempts are used up, or lets an error outside retry_on through
attempt_fails(error) ==
    /\ outcome = "running"
    /\ attempts' = Append(attempts, error)
    /\ outcome' = IF ~retry_if_exception_type(provider, error) THEN error
                  ELSE IF stop_after_attempt(Len(attempts) + 1) THEN reraise(error)
                  ELSE "running"
    /\ UNCHANGED <<drafts, post_analytics, now, last, ops, trends, source_documents,
                   run_log, trace, config, gen, provider, tweets, sessions>>

\* create_llm_client has built the adapter of the configured provider
InitRetry ==
    /\ drafts = << >>
    /\ post_analytics = {}
    /\ now = 0
    /\ last = [op |-> "init", id |-> 0, ret |-> None, from |-> None, arg |-> None]
    /\ ops = 0
    /\ trends = <<>>
    /\ source_documents = <<>>
    /\ run_log = <<>>
    /\ trace = <<>>
    /\ config = [profanity_filter |-> TRUE]
    /\ gen = [pc |-> "idle"]
    /\ provider \in Providers
    /\ attempts = <<>>
    /\ outcome = "idle"
    /\ tweets = <<>>
    /\ sessions = <<>>

NextRetry ==
    \/ call_generate
    \/ attempt_succeeds
    \/ \E error \in ErrorClasses : attempt_fails(error)

SpecRetry == InitRetry /\ [][NextRetry]_vars

\* ---- concurrent writers of one draft (draft_manager.py, db.py) ----

\* two writing sessions and a reading one, each with its own connection
Writers == {1, 2}

Reader == 3

\* the contents and hashtag lists the update_content calls supply
SuppliedContents == {<<"a">>, <<"a", "a">>}

SuppliedHashtags == {<<"#One">>, <<"#Two">>}

\* the draft the sessions work on, as a generate call left it and a review
\* changed its status
SharedId == 1

SharedRow(status) ==
    [insert_draft(to_db_dict(Draft([platform |-> TWITTER, content |-> <<"a", "a", "a">>,
                                    hashtags |-> config_hashtags(TWITTER),
                                    tone |-> default_tone(TWITTER)])))
       EXCEPT !.status = status]

\* a session that has not started
NoSession == [pc |-> "idle"]

\* DraftManager.update_content up to db.update: the column values are
\* collected in a dict of the call
update_content_begins(p, content, hashtags) ==
    /\ sessions[p].pc = "idle"
    /\ sessions' = [sessions EXCEPT ![p] =
                      [pc |-> "write", call |-> "update_content",
                       content |-> content, hashtags |-> hashtags]]
    /\ UNCHANGED <<drafts, post_analytics, now, last, ops, trends, source_documents,
                   run_log, trace, config, gen, provider, attempts, outcome, tweets>>

\* ContentGenerator.regenerate up to the adapter call: the draft is read
regenerate_begins(p) ==
    /\ sessions[p].pc = "idle"
    /\ LET draft == get_draft(drafts, SharedId)
       IN /\ draft # None
          /\ sessions' = [sessions EXCEPT ![p] =
                            [pc |-> "llm", call |-> "regenerate",
                             hashtags |-> draft[1].hashtags]]
    /\ UNCHANGED <<drafts, post_analytics, now, last, ops, trends, source_documents,
                   run_log, trace, config, gen, provider, attempts, outcome, tweets>>

\* the adapter answers the regenerate of session p
regenerate_gets_result(p, r) ==
    /\ sessions[p].pc = "llm"
    /\ ~Raises(r)
    /\ sessions' = [sessions EXCEPT ![p] =
                      [pc |-> "write", call |-> "regenerate",
                       content |-> strip(r.text), hashtags |-> sessions[p].hashtags]]
    /\ UNCHANGED <<drafts, post_analytics, now, last, ops, trends, source_documents,
                   run_log, trace, config, gen, provider, attempts, outcome, tweets>>

\* a writer that sets the content in one statement and the rest in another
execute_update_by_column(p) ==
    /\ sessions[p].pc = "write"
    /\ drafts' = update(drafts, [content |-> sessions[p].content], SharedId)
    /\ sessions' = [sessions EXCEPT ![p].pc = "done"]
    /\ UNCHANGED <<post_analytics, now, last, ops, trends, source_documents,
                   run_log, trace, config, gen, provider, attempts, outcome, tweets>>

\* Database.update: one UPDATE statement naming all the columns of the call,
\* executed and committed on a connection of its own
execute_update(p) ==
    /\ sessions[p].pc = "write"
    /\ drafts' = update(drafts,
                        update_content_data(sessions[p].content, Some(sessions[p].hashtags)),
                        SharedId)
    /\ sessions' = [sessions EXCEPT ![p].pc = "done"]
    /\ UNCHANGED <<post_analytics, now, last, ops, trends, source_documents,
                   run_log, trace, config, gen, provider, attempts, outcome, tweets>>

\* DraftManager.get in the reading session: one SELECT of the committed row
reader_gets ==
    /\ sessions' = [sessions EXCEPT ![Reader] =
                      [pc |-> "done", call |-> "get", seen |-> get_draft(drafts, SharedId)]]
    /\ sessions'[Reader] # sessions[Reader]
    /\ UNCHANGED <<drafts, post_analytics, now, last, ops, trends, source_documents,
                   run_log, trace, config, gen, provider, attempts, outcome, tweets>>

\* the shared draft is stored, reviewed or not, and no session has started
InitWriters ==
    /\ now = 0
    /\ drafts \in {<<SharedRow(s)>> : s \in {PENDING, APPROVED, REJECTED}}
    /\ post_analytics = {}
    /\ last = [op |-> "init", id |-> 0, ret |-> None, from |-> None, arg |-> None]
    /\ ops = 0
    /\ trends = <<>>
    /\ source_documents = <<>>
    /\ run_log = <<>>
    /\ trace = <<>>
    /\ config = [profanity_filter |-> TRUE]
    /\ gen = [pc |-> "idle"]
    /\ provider = "none"
    /\ attempts = <<>>
    /\ outcome = "idle"
    /\ tweets = <<>>
    /\ sessions = [p \in Writers \cup {Reader} |-> NoSession]

NextWriters ==
    \/ \E p \in Writers, c \in SuppliedContents, h \in SuppliedHashtags :
          update_content_begins(p, c, h)
    \/ \E p \in Writers : regenerate_begins(p)
    \/ \E p \in Writers, r \in Responses : regenerate_gets_result(p, r)
    \/ \E p \in Writers : execute_update(p)
    \/ reader_gets

SpecWriters == InitWriters /\ [][NextWriters]_vars

\* ---- the Twitter publisher (publisher/twitter_publisher.py) ----

\* the character limit of a tweet (280 without x_premium), in tokens
char_limit == 2

\* accounts.twitter.max_posts_per_day
max_posts_per_day == 1

\* Draft.display_content: the content with the hashtags appended
display_content(draft) ==
    IF draft.hashtags # <<>> THEN draft.content \o <<" ">> \o draft.hashtags
    ELSE draft.content

\* Database.get_posts_count_today
get_posts_count_today(store, platform) ==
    Cardinality({id \in DOMAIN store :
                    /\ store[id].platform = platform
                    /\ store[id].status = POSTED
                    /\ store[id].posted_at = Some(now)})

\* TwitterPublisher._check_daily_limit
check_daily_limit(store) ==
    get_posts_count_today(store, TWITTER) < config.max_posts_per_day

\* TwitterPublisher._post_tweet with its retries: the tweet is accepted or
\* the call raises
NetworkOutcomes == {"accepted", "raises"}

\* the URL of the next tweet the platform accepts
tweet_url(sent) == "https://x.com/i/status/" \o ToString(Len(sent) + 1)

\* DraftManager.mark_posted on a store value
mark_posted_in(store, id, post_url) ==
    LET draft == get_draft(store, id)
    IN IF draft # None /\ draft[1].status \in PostSources
       THEN update_draft_status(store, id, POSTED,
               [posted_at |-> Some(now),
                post_url |-> IF post_url # "" THEN Some(post_url) ELSE None])
       ELSE store

\* TwitterPublisher._regenerate_to_fit: the stripped text if it fits
regenerate_to_fit(r) ==
    IF Len(strip(r.text)) <= char_limit THEN Some(strip(r.text)) ELSE None

\* what the publisher has changed and returned
PostState(store, analytics, sent, raised, value, reached) ==
    [drafts |-> store, post_analytics |-> analytics, tweets |-> sent,
     raised |-> raised, value |-> value, reached |-> reached]

\* TwitterPublisher.post(draft, dry_run) from the state st, where the
\* adapter would answer r and the platform call would end as net
post_from(st, draft, dry_run, r, net) ==
    LET quiet(reached) == PostState(st.drafts, st.post_analytics, st.tweets, FALSE, None, reached)
        shown == display_content(draft)
        text0 == IF Len(shown) > char_limit /\ Len(draft.content) <= char_limit
                 THEN draft.content ELSE shown
        over == Len(text0) > char_limit
        regenerated == IF Raises(r) THEN None ELSE regenerate_to_fit(r)
        refit == over /\ regenerated # None /\ regenerated # Some(<<>>)
        text == IF refit THEN regenerated[1] ELSE text0
        store1 == IF refit
                  THEN update(st.drafts, update_content_data(text, Some(draft.hashtags)), draft.id)
                  ELSE st.drafts
        url == tweet_url(st.tweets)
    IN IF ~check_daily_limit(st.drafts) THEN quiet("limit")
       ELSE IF over /\ ~config.llm THEN quiet("length")
       ELSE IF over /\ Raises(r)
            THEN PostState(st.drafts, st.post_analytics, st.tweets, TRUE, None, "regenerate")
       ELSE IF over /\ ~refit THEN quiet("length")
       ELSE IF dry_run
            THEN PostState(store1, st.post_analytics, st.tweets, FALSE,
                           Some([dry_run |-> TRUE, text |-> text]), "dry_run")
       ELSE IF net = "raises"
            THEN PostState(store1, st.post_analytics, st.tweets, FALSE, None, "post_tweet")
       ELSE PostState(mark_posted_in(store1, draft.id, url),
                      st.post_analytics \cup {draft.id},
                      Append(st.tweets, [draft_id |-> draft.id, text |-> text,
                                         url |-> url, day |-> now]),
                      FALSE, Some([url |-> url]), "post_tweet")

\* the state the publisher starts from
PostStart == PostState(drafts, post_analytics, tweets, FALSE, None, "start")

\* the post command for one draft (cli.py): the draft must be stored,
\* APPROVED and a tweet
post(id, dry_run, r, net) ==
    /\ Count
    /\ id \in DOMAIN drafts
    /\ drafts[id].status = APPROVED
    /\ drafts[id].platform = TWITTER
    /\ LET st == post_from(PostStart, get_draft(drafts, id)[1], dry_run, r, net)
       IN /\ drafts' = st.drafts
          /\ post_analytics' = st.post_analytics
          /\ tweets' = st.tweets
          /\ last' = [op |-> "post", id |-> id,
                      ret |-> [raised |-> st.raised, value |-> st.value, reached |-> st.reached],
                      from |-> StatusOf(drafts, id),
                      arg |-> [dry_run |-> dry_run, net |-> net]]
    /\ UNCHANGED <<now, trends, source_documents, run_log, trace, config, gen,
                   provider, attempts, outcome, sessions>>

\* DraftManager.list_approved, twitter only: the orders ORDER BY created_at
\* DESC allows
list_approved_twitter ==
    LET ids == {id \in DOMAIN drafts :
                   drafts[id].status = APPROVED /\ drafts[id].platform = TWITTER}
    IN {order \in [1..Cardinality(ids) -> ids] :
           /\ \A i, j \in DOMAIN order : i # j => order[i] # order[j]
           /\ \A i, j \in DOMAIN order :
                 i < j => drafts[order[i]].created_at >= drafts[order[j]].created_at}

\* the loop of post_all_approved over the drafts read at its start, where
\* the adapter would answer r and the platform call for draft id would end
\* as nets[id]
RECURSIVE post_loop(_, _, _, _, _, _, _)
post_loop(st, approved, i, dry_run, r, nets, results) ==
    IF i > Len(approved) THEN [st EXCEPT !.value = results]
    ELSE LET next == post_from(st, approved[i], dry_run, r, nets[approved[i].id])
             got == IF next.value # None THEN Append(results, next.value[1]) ELSE results
         IN IF next.raised THEN [next EXCEPT !.value = got]
            ELSE IF ~dry_run /\ ~check_daily_limit(next.drafts)
                 THEN [next EXCEPT !.value = got]
            ELSE post_loop(next, approved, i + 1, dry_run, r, nets, got)

\* TwitterPublisher.post_all_approved
post_all_approved(dry_run, r, nets) ==
    /\ Count
    /\ \E order \in list_approved_twitter :
          LET approved == [i \in DOMAIN order |-> get_draft(drafts, order[i])[1]]
              st == post_loop(PostStart, approved, 1, dry_run, r, nets, <<>>)
          IN /\ drafts' = st.drafts
             /\ post_analytics' = st.post_analytics
             /\ tweets' = st.tweets
             /\ last' = [op |-> "post_all_approved", id |-> 0,
                         ret |-> [raised |-> st.raised, value |-> st.value,
                                  reached |-> st.reached],
                         from |-> None,
                         arg |-> [dry_run |-> dry_run, net |-> "any"]]
    /\ UNCHANGED <<now, trends, source_documents, run_log, trace, config, gen,
                   provider, attempts, outcome, sessions>>

\* a tweet draft as generate_tweet created it and a review approved it
ApprovedTweet(content) ==
    [insert_draft(to_db_dict(Draft([platform |-> TWITTER, content |-> content,
                                    hashtags |-> config_hashtags(TWITTER),
                                    tone |-> default_tone(TWITTER)])))
       EXCEPT !.status = APPROVED, !.reviewed_at = Some(now)]

\* the contents of the approved tweets: within the limit, and over it
TweetContents == {<<"a">>, <<"a", "a", "a">>}

\* the publisher is constructed, with or without an adapter, over a store of
\* approved tweets
InitPublish ==
    /\ now = 0
    /\ drafts \in {<<ApprovedTweet(c), ApprovedTweet(<<"a">>)>> : c \in TweetContents}
    /\ post_analytics = {}
    /\ last = [op |-> "init", id |-> 0, ret |-> None, from |-> None, arg |-> None]
    /\ ops = 0
    /\ trends = <<>>
    /\ source_documents = <<>>
    /\ run_log = <<>>
    /\ trace = <<>>
    /\ config \in {[profanity_filter |-> TRUE, llm |-> b,
                    max_posts_per_day |-> max_posts_per_day] : b \in BOOLEAN}
    /\ gen = [pc |-> "idle"]
    /\ provider = "none"
    /\ attempts = <<>>
    /\ outcome = "idle"
    /\ tweets = <<>>
    /\ sessions = <<>>

\* how the platform call would end for each draft
NetworkAnswers == [DraftIds -> NetworkOutcomes]

NextPublish ==
    \/ \E id \in DraftIds, d \in BOOLEAN, r \in Responses, net \in NetworkOutcomes :
          post(id, d, r, net)
    \/ \E d \in BOOLEAN, r \in Responses, nets \in NetworkAnswers :
          post_all_approved(d, r, nets)
    \/ \E id \in DraftIds : approve(id, None)
    \/ \E id \in DraftIds, c \in EditedTexts : update_content(id, c, None)
    \/ Tick

SpecPublish == InitPublish /\ [][NextPublish]_vars

\* ---- the interactive review (cli.py review_draft) ----

\* the statuses review_draft admits
ReviewSources == {PENDING, REJECTED}

\* the menu: approve, change tone, add context, edit, hashtags, reject, skip
Choices == 1..7

\* what the adapter answers during a review
ReviewResponses == {GenerationResult(<<"a", "a", " ">>), ProviderError}

\* what the reviewer answers to the hashtag prompts: the action and its tags
HashtagActions == {"add", "remove", "replace"}

HashtagAnswers == [action : HashtagActions, tags : {<<"#AI">>}]

\* one pass of the menu: the choice with what follows it (the adapter's
\* response, the text left in the editor, the hashtag answers, the reason)
Passes ==
    {<<1, None>>, <<7, None>>}
    \cup {<<c, r>> : c \in {2, 3}, r \in ReviewResponses}
    \cup {<<4, t>> : t \in {<<"a">>} \cup EditedTexts}
    \cup {<<5, h>> : h \in HashtagAnswers}
    \cup {<<6, n>> : n \in {"bad"}}

\* the hashtag list choice 5 computes from the draft's list
updated_tags(current_tags, answer) ==
    CASE answer.action = "add" -> current_tags \o answer.tags
      [] answer.action = "remove" ->
            SelectSeq(current_tags, LAMBDA t : t # answer.tags[1])
      [] OTHER -> answer.tags

\* the store after dm.approve(draft_id) / dm.reject(draft_id, notes), whose
\* return values the review does not look at
approve_unchecked(store, id) ==
    LET draft == get_draft(store, id)
    IN IF draft # None /\ draft[1].status \in ApproveSources
       THEN update_draft_status(store, id, APPROVED, [reviewed_at |-> Some(now)])
       ELSE store

reject_unchecked(store, id, notes) ==
    LET draft == get_draft(store, id)
    IN IF draft # None /\ draft[1].status \in RejectSources
       THEN update_draft_status(store, id, REJECTED,
                [reviewed_at |-> Some(now),
                 reviewer_notes |-> IF notes # "" THEN Some(notes) ELSE None])
       ELSE store

\* the review of a draft that was admitted: the store, what was printed last
\* about the outcome, whether the loop was left and whether the adapter raised
ReviewState(store, reported, done, raised) ==
    [store |-> store, reported |-> reported, done |-> done, raised |-> raised]

\* one pass of the menu loop for the choice made; draft is the in-memory
\* Draft, read again after every change
review_choice(st, id, pass) ==
    LET draft == get_draft(st.store, id)[1]
        choice == pass[1]
        answer == pass[2]
    IN CASE choice = 1 ->
              ReviewState(approve_unchecked(st.store, id), "approved", TRUE, FALSE)
         [] choice \in {2, 3} ->
              IF Raises(answer)
              THEN ReviewState(st.store, st.reported, TRUE, TRUE)
              ELSE ReviewState(update(st.store,
                                      update_content_data(strip(answer.text),
                                                          Some(draft.hashtags)),
                                      id),
                               st.reported, FALSE, FALSE)
         [] choice = 4 ->
              IF answer # display_content(draft)
              THEN ReviewState(update(st.store, update_content_data(answer, None), id),
                               st.reported, FALSE, FALSE)
              ELSE st
         [] choice = 5 ->
              ReviewState(update(st.store,
                                 update_content_data(draft.content,
                                     Some(updated_tags(draft.hashtags, answer))),
                                 id),
                          st.reported, FALSE, FALSE)
         [] choice = 6 ->
              ReviewState(reject_unchecked(st.store, id, answer), "rejected", TRUE, FALSE)
         [] OTHER ->
              ReviewState(st.store, "left as pending", TRUE, FALSE)

\* the while True loop over the passes of one review; it is left by the
\* first pass that breaks, which must be the last one given
RECURSIVE review_loop(_, _, _, _)
review_loop(st, id, passes, i) ==
    IF i > Len(passes) THEN st
    ELSE IF st.done THEN ReviewState(st.store, st.reported, FALSE, st.raised)
    ELSE review_loop(review_choice(st, id, passes[i]), id, passes, i + 1)

\* the sequences of passes of one review
MaxChoices == 2
PassSeqs == UNION {[1..n -> Passes] : n \in 1..MaxChoices}

\* the review command: a missing draft aborts, a draft in another status is
\* reported as such, and an admitted draft goes through the menu until a
\* pass leaves it
review_draft(id, passes) ==
    /\ Count
    /\ LET draft == get_draft(drafts, id)
           admitted == draft # None /\ draft[1].status \in ReviewSources
           final == IF admitted
                    THEN review_loop(ReviewState(drafts, "nothing", FALSE, FALSE),
                                     id, passes, 1)
                    ELSE ReviewState(drafts,
                                     IF draft = None THEN "not found" ELSE "already",
                                     TRUE, draft = None)
       IN /\ admitted \/ passes = <<<<7, None>>>>
          /\ final.done
          /\ drafts' = final.store
          /\ last' = [op |-> "review", id |-> id,
                      ret |-> [raised |-> final.raised, reported |-> final.reported],
                      from |-> StatusOf(drafts, id),
                      arg |-> [i \in 1..Len(passes) |-> passes[i][1]]]
    /\ UNCHANGED <<post_analytics, now, aux>>

\* drafts are generated and rejected, and the reviewer goes through them
NextReview ==
    \/ \E id \in DraftIds, p \in Platform : create_generated(id, p)
    \/ \E id \in DraftIds : reject(id, "bad")
    \/ \E id \in DraftIds : mark_posted(id, "")
    \/ \E id \in DraftIds, passes \in PassSeqs : review_draft(id, passes)
    \/ Tick

SpecReview == Init /\ [][NextReview]_vars

\* ---- fetching the sources (sources/local_reader.py) ----

\* the configured local files and what they may contain
SourcePaths == {"a.md", "b.md"}
FileContents == {<<"a">>, <<"a", "a">>}

\* the number of rows source_documents may grow to
MaxFetched == 2

\* Database.get_source_document_by_path: the rows of the path with the
\* latest fetched_at (ORDER BY fetched_at DESC LIMIT 1 returns one of them)
get_source_document_by_path(source_path) ==
    {i \in 1..Len(source_documents) :
        /\ source_documents[i].source_path = source_path
        /\ \A j \in 1..Len(source_documents) :
              source_documents[j].source_path = source_path =>
                  source_documents[j].fetched_at <= source_documents[i].fetched_at}

\* LocalReader.read of an existing file: the content is hashed; a stored row
\* of the path with the same hash is returned as it is, otherwise a row is
\* inserted
read(file_path, content) ==
    /\ Count
    /\ LET hash == content_hash(content)
           existing == get_source_document_by_path(file_path)
       IN \/ /\ \E e \in existing : source_documents[e].content_hash = hash
             /\ UNCHANGED source_documents
             /\ last' = [op |-> "read", id |-> 0, ret |-> "unchanged, skipping",
                         from |-> None, arg |-> [path |-> file_path, at |-> now]]
          \/ /\ existing = {} \/ \E e \in existing : source_documents[e].content_hash # hash
             /\ Len(source_documents) < MaxFetched
             /\ source_documents' = Append(source_documents,
                                           source_document_row(file_path, hash))
             /\ last' = [op |-> "read", id |-> 0, ret |-> "stored",
                         from |-> None, arg |-> [path |-> file_path, at |-> now]]
    /\ UNCHANGED <<drafts, post_analytics, now, trends, run_log, trace, config, gen,
                   provider, attempts, outcome, tweets, sessions>>

\* the files are read again and again as the clock advances
NextSources ==
    \/ \E f \in SourcePaths, c \in FileContents : read(f, c)
    \/ Tick

SpecSources == InitGen /\ [][NextSources]_vars

\* ---- the adapter factory and the cost estimate (generator/llm_client.py) ----

\* model names are sequences of name parts; every table key and every
\* provider prefix ends where a part ends
startswith(model, prefix) ==
    /\ Len(prefix) <= Len(model)
    /\ SubSeq(model, 1, Len(prefix)) = prefix

\* the price tables in the order of their dicts; prices are thousandths of a
\* dollar per million tokens
ANTHROPIC_COSTS ==
    <<[key |-> <<"claude-", "sonnet-4-5-20250929">>, input |-> 3000, output |-> 15000],
      [key |-> <<"claude-", "sonnet-4-6">>, input |-> 3000, output |-> 15000],
      [key |-> <<"claude-", "opus-4-6">>, input |-> 15000, output |-> 75000],
      [key |-> <<"claude-", "haiku-4-5-20251001">>, input |-> 800, output |-> 4000]>>

OPENAI_COSTS ==
    <<[key |-> <<"gpt-", "4o">>, input |-> 2500, output |-> 10000],
      [key |-> <<"gpt-", "4o", "-mini">>, input |-> 150, output |-> 600],
      [key |-> <<"gpt-", "4-turbo">>, input |-> 10000, output |-> 30000],
      [key |-> <<"o1">>, input |-> 15000, output |-> 60000],
      [key |-> <<"o1", "-mini">>, input |-> 3000, output |-> 12000],
      [key |-> <<"o3", "-mini">>, input |-> 1100, output |-> 4400]>>

GOOGLE_COSTS ==
    <<[key |-> <<"gemini-", "2.0-flash">>, input |-> 100, output |-> 400],
      [key |-> <<"gemini-", "2.5-pro">>, input |-> 1250, output |-> 10000],
      [key |-> <<"gemini-", "2.5-flash">>, input |-> 150, output |-> 600],
      [key |-> <<"gemini-", "1.5-pro">>, input |-> 1250, output |-> 5000],
      [key |-> <<"gemini-", "1.5-flash">>, input |-> 75, output |-> 300]>>

\* the price used when no key matches
NoCosts == [input |-> 0, output |-> 0]

\* the entries of the table whose key is the model name / a prefix of it
exact_matches(model, cost_table) ==
    {i \in 1..Len(cost_table) : cost_table[i].key = model}

prefix_matches(model, cost_table) ==
    {i \in 1..Len(cost_table) : startswith(model, cost_table[i].key)}

\* the first element of a non-empty set of indexes
first(indexes) == CHOOSE i \in indexes : \A j \in indexes : i <= j

\* _estimate_cost: the entry of the model name itself, else the entry of the
\* first key in dict order that is a prefix of the name (the loop breaks on
\* it), else the zero prices
_estimate_cost(model, input_tokens, output_tokens, cost_table) ==
    LET costs == IF exact_matches(model, cost_table) # {}
                 THEN cost_table[first(exact_matches(model, cost_table))]
                 ELSE IF prefix_matches(model, cost_table) # {}
                      THEN cost_table[first(prefix_matches(model, cost_table))]
                      ELSE NoCosts
    IN input_tokens * costs.input + output_tokens * costs.output

\* _PROVIDER_MODEL_PREFIXES, in the order of the dict
PROVIDER_MODEL_PREFIXES ==
    <<[provider |-> "anthropic", prefixes |-> {<<"claude-">>}],
      [provider |-> "openai", prefixes |-> {<<"gpt-">>, <<"o1">>, <<"o3">>}],
      [provider |-> "google", prefixes |-> {<<"gemini-">>}]>>

\* detect_provider: the first provider one of whose prefixes starts the
\* model name; None stands for the ValueError
detect_provider(model) ==
    LET hits == {i \in 1..Len(PROVIDER_MODEL_PREFIXES) :
                    \E p \in PROVIDER_MODEL_PREFIXES[i].prefixes : startswith(model, p)}
    IN IF hits # {} THEN Some(PROVIDER_MODEL_PREFIXES[first(hits)].provider) ELSE None

\* the factory with the explicit provider ignored
create_llm_client_by_prefix(model, explicit, api_keys) ==
    LET detected == detect_provider(model)
    IN IF detected = None
       THEN [raised |-> TRUE, error |-> "Cannot auto-detect provider", client |-> None]
       ELSE IF detected[1] \notin api_keys
            THEN [raised |-> TRUE, error |-> "API key not set", client |-> None]
            ELSE [raised |-> FALSE, error |-> "",
                  client |-> Some([adapter |-> detected[1], model |-> model])]

\* create_llm_client: the provider is detected only when none is given; the
\* adapter of the provider is constructed, which raises without its API key
create_llm_client(model, explicit, api_keys) ==
    LET detected == IF explicit = None THEN detect_provider(model) ELSE explicit
    IN IF detected = None
       THEN [raised |-> TRUE, error |-> "Cannot auto-detect provider", client |-> None]
       ELSE IF detected[1] \notin Providers
            THEN [raised |-> TRUE, error |-> "Unknown provider", client |-> None]
            ELSE IF detected[1] \notin api_keys
                 THEN [raised |-> TRUE, error |-> "API key not set", client |-> None]
                 ELSE [raised |-> FALSE, error |-> "",
                       client |-> Some([adapter |-> detected[1], model |-> model])]

\* the price table each adapter estimates with
cost_table_of(adapter) ==
    CASE adapter = "anthropic" -> ANTHROPIC_COSTS
      [] adapter = "openai" -> OPENAI_COSTS
      [] OTHER -> GOOGLE_COSTS

\* the model names of the configuration: a family and up to MaxParts parts
Families == {<<"claude-">>, <<"gpt-">>, <<"gemini-">>, <<"o1">>, <<"o3">>, <<"llama-">>}
Parts == {"4o", "-mini", "-2024-07-18", "sonnet-4-6", "2.0-flash"}
MaxParts == 2
ModelNames ==
    {f \o rest : f \in Families, rest \in UNION {[1..n -> Parts] : n \in 0..MaxParts}}

\* generation.provider of the configuration: absent, or a name
ProviderNames == {None} \cup {Some(p) : p \in Providers \cup {"azure"}}

\* the environment holds the API keys of all providers or of none
ApiKeys == {Providers, {}}

\* the configuration of the generation and its environment
InitClient ==
    /\ drafts = << >>
    /\ post_analytics = {}
    /\ now = 0
    /\ last = [op |-> "init", id |-> 0, ret |-> None, from |-> None, arg |-> None]
    /\ ops = 0
    /\ trends = <<>>
    /\ source_documents = <<>>
    /\ run_log = <<>>
    /\ trace = <<>>
    /\ config \in [model : ModelNames, provider : ProviderNames, api_keys : ApiKeys]
    /\ gen = [pc |-> "idle"]
    /\ provider = "none"
    /\ attempts = <<>>
    /\ outcome = "idle"
    /\ tweets = <<>>
    /\ sessions = <<>>

\* a command builds its adapter from the configuration
builds_client ==
    /\ Count
    /\ last.op = "init"
    /\ last' = [op |-> "create_llm_client", id |-> 0,
                ret |-> create_llm_client(config.model, config.provider, config.api_keys),
                from |-> None, arg |-> None]
    /\ UNCHANGED <<drafts, post_analytics, now, aux>>

\* the adapter prices the usage of a call with the table of its provider
TokenCounts == {1, 2}

prices_usage(input_tokens, output_tokens) ==
    /\ Count
    /\ last.op = "create_llm_client"
    /\ ~last.ret.raised
    /\ LET client == last.ret.client[1]
       IN last' = [op |-> "estimate_cost", id |-> 0,
                   ret |-> _estimate_cost(client.model, input_tokens, output_tokens,
                                          cost_table_of(client.adapter)),
                   from |-> None,
                   arg |-> [model |-> client.model, adapter |-> client.adapter,
                            input_tokens |-> input_tokens,
                            output_tokens |-> output_tokens]]
    /\ UNCHANGED <<drafts, post_analytics, now, aux>>

NextClient ==
    \/ builds_client
    \/ \E i \in TokenCounts, o \in TokenCounts : prices_usage(i, o)

SpecClient == InitClient /\ [][NextClient]_vars

\* ---- the claims ----

\* the step is a call of operation op addressed to draft id
Calls(op, id) == ops' # ops /\ last'.op = op /\ last'.id = id

Exists(id) == id \in DOMAIN drafts

TerminalStatus == {POSTED, EXPIRED}

\* C1: approve(id) returns true exactly when the draft exists and its stored
\* status is PENDING or FAILED; then the stored status becomes APPROVED and
\* reviewed_at is non-null.  From every other status it returns false.
C1_ApproveContract ==
    [][\A id \in DraftIds : Calls("approve", id) =>
          /\ last'.ret = (Exists(id) /\ drafts[id].status \in {PENDING, FAILED})
          /\ last'.ret => /\ drafts'[id].status = APPROVED
                          /\ drafts'[id].reviewed_at # None
          /\ (Exists(id) /\ drafts[id].status \in {APPROVED, REJECTED, POSTED, EXPIRED})
                => last'.ret = FALSE]_vars

C1_Witness ==
    /\ last.op = "approve"
    /\ last.from = Some(PENDING)
    /\ last.ret = TRUE
    /\ drafts[last.id].status = APPROVED
    /\ drafts[last.id].reviewed_at # None

\* C2: once a draft's stored status is POSTED or EXPIRED, no operation other
\* than delete changes its status.
C2_TerminalStatusIsFinal ==
    [][\A id \in DraftIds :
          (Exists(id) /\ drafts[id].status \in TerminalStatus /\ ~Calls("delete", id))
             => (id \in DOMAIN drafts' /\ drafts'[id].status = drafts[id].status)]_vars

\* C3: approve, reject or mark_posted on an existing draft whose status is
\* outside the operation's source states returns false and leaves every field
\* of the stored draft (and the rest of the store) unchanged.
C3_InvalidTransitionIsNoOp ==
    [][\A id \in DraftIds :
          /\ (Calls("approve", id) /\ Exists(id) /\ drafts[id].status \notin {PENDING, FAILED})
                => (last'.ret = FALSE /\ drafts' = drafts /\ post_analytics' = post_analytics)
          /\ (Calls("reject", id) /\ Exists(id) /\ drafts[id].status # PENDING)
                => (last'.ret = FALSE /\ drafts' = drafts /\ post_analytics' = post_analytics)
          /\ (Calls("mark_posted", id) /\ Exists(id) /\ drafts[id].status # APPROVED)
                => (last'.ret = FALSE /\ drafts' = drafts /\ post_analytics' = post_analytics)]_vars

C3_Witness ==
    /\ last.op = "approve"
    /\ last.from = Some(APPROVED)
    /\ last.ret = FALSE
    /\ drafts[last.id].status = APPROVED

\* C4: reject(id, notes) returns true exactly when the draft exists and its
\* stored status is PENDING; then the status becomes REJECTED, reviewed_at is
\* set and reviewer_notes holds the notes (null for empty notes).
C4_RejectContract ==
    [][\A id \in DraftIds : Calls("reject", id) =>
          /\ last'.ret = (Exists(id) /\ drafts[id].status = PENDING)
          /\ last'.ret => /\ drafts'[id].status = REJECTED
                          /\ drafts'[id].reviewed_at # None
                          /\ drafts'[id].reviewer_notes =
                                IF last'.arg = "" THEN None ELSE Some(last'.arg)]_vars

C4_Witness ==
    /\ last.op = "reject"
    /\ last.ret = TRUE
    /\ last.arg = "bad"
    /\ drafts[last.id].status = REJECTED
    /\ drafts[last.id].reviewer_notes = Some("bad")

\* C5: mark_posted(id, url) returns true exactly when the draft exists and its
\* stored status is APPROVED; then the status becomes POSTED, posted_at is set
\* and post_url holds the URL (null for the empty placeholder).  A draft
\* becomes POSTED only in a step that takes it from APPROVED.
C5_MarkPostedContract ==
    [][\A id \in DraftIds :
          /\ Calls("mark_posted", id) =>
                /\ last'.ret = (Exists(id) /\ drafts[id].status = APPROVED)
                /\ last'.ret => /\ drafts'[id].status = POSTED
                                /\ drafts'[id].posted_at # None
                                /\ drafts'[id].post_url =
                                      IF last'.arg = "" THEN None ELSE Some(last'.arg)
          /\ (id \in DOMAIN drafts' /\ drafts'[id].status = POSTED
                /\ ~(Exists(id) /\ drafts[id].status = POSTED))
                => (Exists(id) /\ drafts[id].status = APPROVED)]_vars

C5_Witness ==
    /\ last.op = "mark_posted"
    /\ last.from = Some(APPROVED)
    /\ last.ret = TRUE
    /\ drafts[last.id].status = POSTED
    /\ drafts[last.id].posted_at # None
    /\ drafts[last.id].post_url = None

\* C6: update_content(id, content, hashtags) on an existing draft sets the
\* status to PENDING whatever it was, sets content to the given text, replaces
\* the hashtags when a list is given and keeps them when none is given.
C6_UpdateContentResets ==
    [][\A id \in DraftIds : (Calls("update_content", id) /\ Exists(id)) =>
          /\ drafts'[id].status = PENDING
          /\ drafts'[id].content = last'.arg[1]
          /\ from_db_row(id, drafts'[id]).hashtags =
                IF last'.arg[2] # None THEN last'.arg[2][1]
                ELSE from_db_row(id, drafts[id]).hashtags]_vars

C6_Witness ==
    /\ last.op = "update_content"
    /\ last.from = Some(REJECTED)
    /\ last.arg = <<"new text", None>>
    /\ drafts[last.id].status = PENDING
    /\ drafts[last.id].content = "new text"

\* C7: every operation addressed to a draft id that is not in the store
\* returns null/false and leaves the store unchanged.
C7_MissingIdIsRefused ==
    [][\A id \in DraftIds :
          (~Exists(id) /\ ops' # ops /\ last'.id = id
             /\ last'.op \in {"get", "approve", "reject", "mark_posted",
                              "mark_failed", "update_content", "delete"})
          => /\ IF last'.op = "get" THEN last'.ret = None ELSE last'.ret = FALSE
             /\ drafts' = drafts
             /\ post_analytics' = post_analytics]_vars

\* C8: mark_failed(id, error) on an existing draft in a non-terminal status
\* sets the status to FAILED and error_message to the error, keeps content
\* and hashtags, and an approve that follows succeeds (FAILED -> APPROVED).
C8_MarkFailedThenRetry ==
    [][\A id \in DraftIds :
          /\ (Calls("mark_failed", id) /\ Exists(id)
                /\ drafts[id].status \in {PENDING, APPROVED, REJECTED, FAILED})
             => /\ drafts'[id].status = FAILED
                /\ drafts'[id].error_message = Some(last'.arg)
                /\ drafts'[id].content = drafts[id].content
                /\ drafts'[id].hashtags = drafts[id].hashtags
          /\ (last.op = "mark_failed" /\ last.id = id /\ last.from # None
                /\ last.from[1] \notin TerminalStatus /\ Calls("approve", id))
             => /\ last'.ret = TRUE
                /\ drafts'[id].status = APPROVED]_vars

C8_Witness ==
    /\ last.op = "approve"
    /\ last.from = Some(FAILED)
    /\ last.ret = TRUE
    /\ drafts[last.id].status = APPROVED
    /\ drafts[last.id].error_message = Some("boom")

\* C9: expire_old(days) changes to EXPIRED exactly the PENDING drafts created
\* more than days ago, returns how many it changed and leaves every other
\* draft unchanged.
C9_ExpireOldExact ==
    [][(ops' # ops /\ last'.op = "expire_old") =>
          LET old == {i \in DOMAIN drafts :
                        drafts[i].status = PENDING /\ now - drafts[i].created_at > last'.arg}
          IN /\ DOMAIN drafts' = DOMAIN drafts
             /\ \A i \in old : drafts'[i] = [drafts[i] EXCEPT !.status = EXPIRED]
             /\ \A i \in DOMAIN drafts \ old : drafts'[i] = drafts[i]
             /\ last'.ret = Cardinality(old)
             /\ post_analytics' = post_analytics]_vars

C9_Witness ==
    /\ last.op = "expire_old"
    /\ last.ret = 1
    /\ \E i, j \in DOMAIN drafts :
          /\ drafts[i].status = EXPIRED
          /\ drafts[j].status = PENDING
          /\ now - drafts[j].created_at = last.arg

\* C10: no lifecycle transition removes a draft; only delete does, and delete
\* of an existing id removes the draft row and its analytics row and returns
\* true, while delete of a missing id returns false.
C10_OnlyDeleteRemoves ==
    [][\A id \in DraftIds :
          /\ (Exists(id) /\ ~Calls("delete", id)) => id \in DOMAIN drafts'
          /\ (ops' # ops /\ last'.op \in {"approve", "reject", "mark_posted", "mark_failed",
                                         "update_content", "expire_old"})
                => DOMAIN drafts' = DOMAIN drafts
          /\ (Calls("delete", id) /\ Exists(id))
                => /\ last'.ret = TRUE
                   /\ DOMAIN drafts' = DOMAIN drafts \ {id}
                   /\ post_analytics' = post_analytics \ {id}
                   /\ \A i \in DOMAIN drafts' : drafts'[i] = drafts[i]
          /\ (Calls("delete", id) /\ ~Exists(id))
                => (last'.ret = FALSE /\ drafts' = drafts)]_vars

C10_Witness ==
    /\ last.op = "delete"
    /\ last.ret = TRUE
    /\ last.arg = Some(TRUE)
    /\ last.id \notin DOMAIN drafts
    /\ last.id \notin post_analytics

\* C11: for a draft that stays in the store, the fields id, platform,
\* source_reference and created_at keep their values under approve, reject,
\* mark_posted, mark_failed, update_content, expire_old and regenerate.
C11_CreationFieldsKept ==
    [][\A id \in DOMAIN drafts \cap DOMAIN drafts' :
          LET before == from_db_row(id, drafts[id])
              after == from_db_row(id, drafts'[id])
          IN /\ after.id = before.id
             /\ after.platform = before.platform
             /\ after.source_reference = before.source_reference
             /\ after.created_at = before.created_at]_vars

\* a reviewed LinkedIn draft has been regenerated on a later day
C11_Witness ==
    /\ last.op = "regenerate"
    /\ last.ret.value # <<>>
    /\ last.id \in DOMAIN drafts
    /\ drafts[last.id].platform = LINKEDIN
    /\ drafts[last.id].reviewed_at # None
    /\ drafts[last.id].source_reference = Some("trends:0,sources:0")
    /\ now > drafts[last.id].created_at

\* the adapter calls of the generator invocation that is running or ran last
IsLlm(ev) == ev.kind = "llm"

LlmCalls == SelectSeq(trace, IsLlm)

\* the call was made with the strict instruction appended to the system prompt
IsStrict(ev) == ev.system[Len(ev.system)] = StrictInstruction

\* the invocation that ran last returned (it did not raise)
Returned(cmds) == Idle /\ last.op \in cmds /\ ~last.ret.raised

\* C12: in generate_tweet and generate_linkedin_post the second adapter call
\* carries the strict instruction exactly when the first result failed the
\* safety check and the profanity filter is enabled; no other call carries
\* it, whatever the corrective call returns; and a call that returns
\* returns a draft, safe or not.
C12_OneCorrectiveCall ==
    LET calls == LlmCalls
        wanted == /\ Len(calls) >= 1
                  /\ ~Raises(calls[1].response)
                  /\ ~is_safe(calls[1].response.text)
                  /\ config.profanity_filter
    IN /\ \A i \in 1..Len(calls) : IsStrict(calls[i]) => i = 2
       /\ Len(calls) >= 2 => (IsStrict(calls[2]) <=> wanted)
       /\ Returned({"generate_tweet", "generate_linkedin_post"}) =>
             /\ Len(calls) = 1 => ~wanted
             /\ Len(last.ret.value) = 1

\* the corrective call answered with unsafe text and the draft was produced
C12_Witness ==
    /\ Returned({"generate_tweet", "generate_linkedin_post"})
    /\ Len(LlmCalls) = 2
    /\ IsStrict(LlmCalls[2])
    /\ ~is_safe(LlmCalls[2].response.text)
    /\ ~is_safe(last.ret.value[1].content)

\* C13: no tweet that generate_tweet returns or stores exceeds the character
\* ceiling: when the regenerated content is still over it, the call returns
\* no draft and persists nothing.
C13_TweetWithinCeiling ==
    /\ \A id \in DOMAIN drafts :
          drafts[id].platform = TWITTER => Len(drafts[id].content) <= max_length
    /\ Returned({"generate_tweet"}) =>
          \A i \in 1..Len(last.ret.value) : Len(last.ret.value[i].content) <= max_length

\* C14: one generate_tweet or generate_linkedin_post invocation calls the
\* adapter at most twice, and every store write of the invocation comes after
\* its last adapter call.
C14_AtMostTwoCalls ==
    /\ Len(LlmCalls) <= 2
    /\ \A i, j \in 1..Len(trace) :
          (trace[i].kind = "llm" /\ trace[j].kind # "llm") => i < j

GenerateCalls == {"generate_tweet", "generate_linkedin_post", "generate"}

\* C15: with dry_run set, no step of generate_tweet, generate_linkedin_post
\* or generate_all inserts or modifies a draft, and the Draft values the
\* call returns have status PENDING and are not found by get.
C15_DryRunLeavesStore ==
    [][(~Idle /\ gen.cmd \in GenerateCalls /\ gen.dry_run) =>
          /\ drafts' = drafts
          /\ post_analytics' = post_analytics
          /\ (Idle' /\ ~last'.ret.raised) =>
                /\ last'.ret.value # <<>>
                /\ \A i \in 1..Len(last'.ret.value) :
                      /\ last'.ret.value[i].status = PENDING
                      /\ get_draft(drafts', last'.ret.value[i].id) = None]_vars

\* a dry run has returned its unsaved Draft next to a stored draft
C15_Witness ==
    /\ Returned(GenerateCalls)
    /\ last.arg.dry_run
    /\ last.ret.value # <<>>
    /\ drafts # << >>
    /\ get_draft(drafts, last.ret.value[1].id) = None

\* C16: the draft a non-dry-run generate_tweet or generate_linkedin_post
\* returns is in the store with status PENDING, source_reference
\* "trends:N,sources:M" for the N trends of today and the M recent source
\* documents, and generation_model, generation_tokens and generation_cost of
\* the adapter result whose stripped text is its content.
C16_GeneratedDraftStored ==
    [][(~Idle /\ Idle' /\ gen.cmd \in {"generate_tweet", "generate_linkedin_post"}
          /\ ~gen.dry_run /\ ~last'.ret.raised) =>
          LET draft == last'.ret.value[1]
              stored == get_draft(drafts', draft.id)
              result == LlmCalls'[Len(LlmCalls')].response
              N == Cardinality({i \in 1..Len(trends) : trends[i] = now})
              M == Cardinality({i \in 1..Len(source_documents) :
                                   source_documents[i].fetched_at > now - cache_ttl})
          IN /\ Len(last'.ret.value) = 1
             /\ stored # None
             /\ stored[1].status = PENDING
             /\ stored[1].platform = gen.platform
             /\ stored[1].source_reference =
                   "trends:" \o ToString(N) \o ",sources:" \o ToString(M)
             /\ stored[1].content = strip(result.text)
             /\ stored[1].generation_model = Some(result.model)
             /\ stored[1].generation_tokens = Some(result.total_tokens)
             /\ stored[1].generation_cost = Some(result.estimated_cost)]_vars

\* a tweet generated after a corrective call, from one trend of today and no
\* recent source document, carries the figures of the corrective result
C16_Witness ==
    /\ Returned({"generate_tweet"})
    /\ ~last.arg.dry_run
    /\ Len(LlmCalls) = 2
    /\ last.id \in DOMAIN drafts
    /\ drafts[last.id].source_reference = Some("trends:1,sources:0")
    /\ drafts[last.id].generation_model = Some(ConfiguredModel)
    /\ drafts[last.id].generation_tokens = Some(LlmCalls[2].response.total_tokens)
    /\ LlmCalls[1].response.total_tokens # LlmCalls[2].response.total_tokens
    /\ Len(source_documents) = 1

\* C17: when the adapter raises during generate_tweet, generate_linkedin_post
\* or regenerate, the call ends with the error, having inserted or modified
\* no draft; the generate command completes its run as failed, and the
\* drafts that earlier calls of the same generate_all created stay stored.
C17_AdapterErrorPropagates ==
    [][(~Idle /\ LlmCalls' # LlmCalls /\ Raises(LlmCalls'[Len(LlmCalls')].response)) =>
          /\ Idle'
          /\ last'.op = gen.cmd
          /\ last'.ret.raised
          /\ drafts' = drafts
          /\ gen.id \in DOMAIN drafts' <=> gen.cmd = "regenerate"
          /\ gen.cmd # "generate" => \A i \in 1..Len(trace') : trace'[i].kind = "llm"
          /\ gen.cmd = "generate" =>
                /\ run_log'[Len(run_log')] = [run_type |-> "generate", status |-> Some("failed")]
                /\ \A i \in 1..Len(trace') :
                      trace'[i].kind = "insert" =>
                         /\ trace'[i].id \in DOMAIN drafts'
                         /\ trace'[i].id # gen.id
                         /\ \E j \in 1..Len(last'.ret.value) :
                               last'.ret.value[j].id = trace'[i].id]_vars

\* the generate command failed in its LinkedIn call; the tweet it created
\* before is stored
C17_Witness ==
    /\ Idle
    /\ last.op = "generate"
    /\ last.ret.raised
    /\ Len(last.ret.value) = 1
    /\ last.ret.value[1].id \in DOMAIN drafts
    /\ drafts[last.ret.value[1].id].platform = TWITTER
    /\ run_log[Len(run_log)].status = Some("failed")

\* C18: regenerate on an existing draft ends after exactly one adapter call,
\* whether the result passes the safety check or not; when it returns, the
\* row of that id has the stripped result as content, the hashtags it had
\* and status PENDING, no other row has changed, and the draft read back is
\* returned.  On a missing id it returns None without an adapter call.
C18_RegenerateContract ==
    [][/\ (~Idle /\ gen.cmd = "regenerate" /\ Idle') =>
             /\ Len(LlmCalls') = 1
             /\ last'.op = "regenerate" /\ last'.id = gen.id
             /\ gen.id \in DOMAIN drafts
             /\ ~last'.ret.raised =>
                   LET result == LlmCalls'[1].response
                   IN /\ DOMAIN drafts' = DOMAIN drafts
                      /\ drafts'[gen.id].content = strip(result.text)
                      /\ drafts'[gen.id].status = PENDING
                      /\ from_db_row(gen.id, drafts'[gen.id]).hashtags =
                            from_db_row(gen.id, drafts[gen.id]).hashtags
                      /\ \A id \in DOMAIN drafts \ {gen.id} : drafts'[id] = drafts[id]
                      /\ last'.ret.value = get_draft(drafts', gen.id)
       /\ (~Idle /\ gen.cmd = "regenerate" /\ ~Idle') => UNCHANGED vars
       /\ (Idle /\ Idle' /\ ops' # ops /\ last'.op = "regenerate") =>
             /\ last'.id \notin DOMAIN drafts
             /\ last'.ret = [raised |-> FALSE, value |-> None]
             /\ trace' = <<>>
             /\ drafts' = drafts]_vars

\* a rejected draft has been regenerated with text that fails the safety check
C18_Witness ==
    /\ Returned({"regenerate"})
    /\ last.ret.value # None
    /\ drafts[last.id].status = PENDING
    /\ drafts[last.id].reviewer_notes = Some("bad")
    /\ ~is_safe(drafts[last.id].content)
    /\ Len(LlmCalls) = 1
    /\ from_db_row(last.id, drafts[last.id]).hashtags # <<>>

\* C19: after regenerate(draft_id, new_tone) has returned the draft, the
\* stored tone of that draft is new_tone.
C19_RegenerateSetsTone ==
    (Returned({"regenerate"}) /\ last.ret.value # None) =>
        from_db_row(last.id, drafts[last.id]).tone = last.arg.tone

\* the errors the retry policy is for: connection failures and 5xx statuses
Transient == {"APIConnectionError", "InternalServerError"}

\* C20: generate makes at most 3 attempts; it goes on to another attempt
\* only after a transient error on attempt 1 or 2; the first response is
\* returned at once; after three transient failures the error of the last
\* attempt is raised as it is; an error that is not transient is raised by
\* the attempt it occurs in, which is never retried.
C20_RetryPolicy ==
    /\ Len(attempts) <= 3
    /\ \A i \in 1..Len(attempts) :
          i < Len(attempts) => attempts[i] \in Transient
    /\ outcome = "running" =>
          /\ Len(attempts) < 3
          /\ attempts # <<>> => attempts[Len(attempts)] \in Transient
    /\ outcome = "returned" => attempts[Len(attempts)] = OK
    /\ outcome \notin {"idle", "running", "returned"} =>
          /\ outcome = attempts[Len(attempts)]
          /\ outcome \in Transient => Len(attempts) = 3

\* the row carries the content, the hashtags and the status of one executed
\* write
FromOneCall(row) ==
    \E p \in Writers :
        /\ sessions[p].pc = "done"
        /\ row.content = sessions[p].content
        /\ row.hashtags = sessions[p].hashtags
        /\ row.status = PENDING

\* the row is as it was before any write
Untouched(row) ==
    \E s \in DraftStatus : row = from_db_row(SharedId, SharedRow(s))

\* C21: with two concurrent update_content / regenerate writers of one
\* draft, the stored row after a write has content, hashtags and status
\* PENDING from one and the same call, and so has every row a reader gets.
C21_WritesDoNotInterleave ==
    LET stored == from_db_row(SharedId, drafts[SharedId])
        written == \E p \in Writers : sessions[p].pc = "done"
    IN /\ written => FromOneCall(stored)
       /\ ~written => Untouched(stored)
       /\ sessions[Reader].pc = "done" =>
             \/ FromOneCall(sessions[Reader].seen[1])
             \/ Untouched(sessions[Reader].seen[1])

\* both writers have written the draft, the regenerate last, and the reader
\* got the row between the two writes
C21_Witness ==
    /\ \A p \in Writers : sessions[p].pc = "done"
    /\ sessions[1].call = "update_content"
    /\ sessions[2].call = "regenerate"
    /\ sessions[1].content # sessions[2].content
    /\ sessions[1].hashtags # sessions[2].hashtags
    /\ drafts[SharedId].content = sessions[2].content
    /\ sessions[Reader].pc = "done"
    /\ sessions[Reader].seen[1].content = sessions[1].content

\* C22: when the platform call of a publishing attempt for an approved draft
\* raises after its retries, the draft is FAILED afterwards, with the error
\* message recorded.
C22_PublishFailureMarksFailed ==
    (last.op = "post" /\ last.ret.reached = "post_tweet" /\ last.arg.net = "raises") =>
        /\ drafts[last.id].status = FAILED
        /\ drafts[last.id].error_message # None

\* C26: when post has returned a successful non-dry-run result for a draft,
\* the stored status of the draft is POSTED and its post_url is the URL
\* returned, also when the tweet was first regenerated to fit.
C26_SentTweetIsPosted ==
    (last.op = "post" /\ last.ret.value # None /\ ~last.arg.dry_run) =>
        /\ drafts[last.id].status = POSTED
        /\ drafts[last.id].post_url = Some(last.ret.value[1].url)

\* C27: under post, post_all_approved, approve and update_content, the
\* tweets sent on one day never outnumber max_posts_per_day.
C27_DailyLimitKept ==
    \A day \in 0..MaxTime :
        Cardinality({i \in 1..Len(tweets) : tweets[i].day = day}) <= config.max_posts_per_day

\* C23: while generate_tweet is talking to the adapter, the user prompt it
\* built holds, under the "things to AVOID" heading, every note of a recently
\* rejected twitter draft, and under the "things that worked WELL" heading
\* every note of a recently approved one.
C23_FeedbackInPrompt ==
    (gen.pc # "idle" /\ gen.cmd = "generate_tweet") =>
        /\ \A id \in DOMAIN drafts :
             (/\ drafts[id].platform = TWITTER
              /\ drafts[id].status = REJECTED
              /\ drafts[id].reviewer_notes # None) =>
                 /\ AVOID \in gen.user_prompt.rejection_section
                 /\ drafts[id].reviewer_notes[1] \in gen.user_prompt.rejection_section
        /\ \A id \in DOMAIN drafts :
             (/\ drafts[id].platform = TWITTER
              /\ drafts[id].status = APPROVED
              /\ drafts[id].reviewer_notes # None) =>
                 /\ WORKED_WELL \in gen.user_prompt.approval_section
                 /\ drafts[id].reviewer_notes[1] \in gen.user_prompt.approval_section

\* C28: no note that was given to reject is returned by
\* get_recent_approval_notes: the approval feedback of either platform holds
\* only notes that were given to approve.
C28_ApprovalNotesFromApprove ==
    \A p \in Platform :
        get_recent_approval_notes(10, p) \subseteq {n[1] : n \in ApproveNotes \ {None}}

\* C29: a review that ends with the draft reported as approved leaves the
\* draft with the stored status APPROVED.
C29_ReportedApprovedIsApproved ==
    (last.op = "review" /\ last.ret.reported = "approved") =>
        drafts[last.id].status = APPROVED

\* C30: for cache_ttl after a file was read successfully, a row of its path
\* is among the recent source documents the generator takes as its context.
C30_ReadSourceIsRecent ==
    (last.op = "read" /\ now < last.arg.at + cache_ttl) =>
        \E i \in get_recent_source_documents(cache_ttl) :
            source_documents[i].source_path = last.arg.path

\* C24: the estimate is made at the prices of the table entry whose key is the
\* model name; without such an entry, at the prices of the longest key that is
\* a prefix of the model name; and it is 0 when no key is a prefix.
C24_LongestPrefixPrice ==
    (last.op = "estimate_cost") =>
        LET model == last.arg.model
            table == cost_table_of(last.arg.adapter)
            exact == {i \in 1..Len(table) : table[i].key = model}
            prefixes == {i \in 1..Len(table) :
                            /\ Len(table[i].key) <= Len(model)
                            /\ \A k \in 1..Len(table[i].key) : table[i].key[k] = model[k]}
            longest == {i \in prefixes :
                            \A j \in prefixes : Len(table[j].key) <= Len(table[i].key)}
            priced(i) == last.arg.input_tokens * table[i].input
                         + last.arg.output_tokens * table[i].output
        IN IF exact # {} THEN \E i \in exact : last.ret = priced(i)
           ELSE IF prefixes # {} THEN \E i \in longest : last.ret = priced(i)
           ELSE last.ret = 0

\* C25: create_llm_client constructs the adapter of the explicit provider when
\* one is given, whatever the model name, and otherwise the adapter of the
\* model's prefix (claude- anthropic; gpt-, o1, o3 openai; gemini- google); it
\* raises when no provider is given and no prefix matches, and when the
\* explicit provider is none of the three.
C25_ProviderSelection ==
    (last.op = "create_llm_client") =>
        LET family == config.model[1]
            by_prefix == CASE family = "claude-" -> "anthropic"
                           [] family \in {"gpt-", "o1", "o3"} -> "openai"
                           [] family = "gemini-" -> "google"
                           [] OTHER -> "none"
            expected == IF config.provider # None THEN config.provider[1] ELSE by_prefix
            recognized == expected \in {"anthropic", "openai", "google"}
        IN /\ ~recognized => last.ret.raised /\ last.ret.client = None
           /\ (recognized /\ expected \in config.api_keys) =>
                 /\ ~last.ret.raised
                 /\ last.ret.client = Some([adapter |-> expected, model |-> config.model])
           /\ last.ret.client # None => last.ret.client[1].adapter = expected

\* the google adapter was built for a gpt- model because the configuration
\* names the provider
C25_Witness ==
    /\ last.op = "create_llm_client"
    /\ config.provider = Some("google")
    /\ config.model[1] = "gpt-"
    /\ last.ret.client = Some([adapter |-> "google", model |-> config.model])

====
